---- MODULE Spec2Model ----
(***************************************************************************)
(* gtx: static HTML archive of a git repository.                           *)
(*                                                                         *)
(* The model follows main() through project.init, project.save,            *)
(* branchFilter, updateBranches, writePages and writeMainIndex; the flags, *)
(* the config file and the helpers' tests are specifications of their own. *)
(* The output directory is a table of directory entries                    *)
(* that name inodes, so that os.Create on an existing entry truncates the  *)
(* inode every hard link of it shares.  Every external command and every   *)
(* file system call that the code checks for an error may fail.            *)
(***************************************************************************)
EXTENDS Integers, Sequences, FiniteSets, TLC

\* Number of times the program is run against the same output directory.
MaxRuns == 2
\* Number of external failures (commands, file system calls) injected.
MaxFailures == 1
\* Number of -b flags given when branchFilter is studied on its own.
MaxWhitelist == 3
\* Length of the lists the helpers' tests are run on.
MaxLen == 4

VARIABLES
    repo,       \* what git answers: branch and tree listings, diff --stat output,
                \* the commits whose date is bad, the diff-stats that fail
    opt,        \* options: Branches (the whitelist), Force, Name, Quiet
    run,        \* number of the current run
    pc,         \* position of main
    exitCode,   \* -1 while running, then the exit status of the process
    types,      \* var types: extension -> binary (project.go)
    branches,   \* result of branchFilter
    bi, ci, k,  \* writePages: branch, commit, parent/object index
    failedLogs, \* branches whose git log failed in branchFilter
    dropped,    \* <<branch, commit>>: git show or git ls-tree failed in commitParser
    fatal,      \* the message of the log.Fatalf that ended the run, or ""
    task,       \* state of each go p.writeBranchPage(b)
    fs,         \* output directory: [ino: entry -> inode, data: inode -> content]
    prev,       \* output directory as the previous run left it
    attempted,  \* items writePages and writeMainIndex have attempted this run
    failures,   \* external failures injected so far
    args,       \* the flags of the command line: <<name, value>> each
    argi,       \* flag.Parse: index of the next flag
    config,     \* the config file of the output directory, or NoConfig
    discard,    \* log.SetOutput(io.Discard) was called
    words,      \* helper_test.go: the list the tests are run on
    got         \* helper_test.go: what contains and dedupe returned

flagvars == <<args, argi, config, discard>>

testvars == <<words, got>>

vars == <<repo, opt, run, pc, exitCode, types, branches, failedLogs, dropped, fatal,
          bi, ci, k, task, fs, prev, attempted, failures, flagvars, testvars>>

-----------------------------------------------------------------------------
(* helper.go *)

\* contains looking at the first element only.
containsFirst(s, n) == s # <<>> /\ s[1] = n

RECURSIVE contains(_, _)
\* contains' loop: true at the first element equal to n, false at the end.
contains(s, n) ==
    IF s = <<>> THEN FALSE
    ELSE IF s[1] = n THEN TRUE
         ELSE contains(Tail(s), n)

RECURSIVE dedupeAdjacent(_, _)
\* dedupe's loop with the set holding the last element only.
dedupeAdjacent(input, set) ==
    IF input = <<>> THEN <<>>
    ELSE IF input[1] \in set THEN dedupeAdjacent(Tail(input), set)
         ELSE <<input[1]>> \o dedupeAdjacent(Tail(input), {input[1]})

RECURSIVE dedupeFrom(_, _)
\* dedupe's loop: the elements of input not in set, each once, in order.
dedupeFrom(input, set) ==
    IF input = <<>> THEN <<>>
    ELSE IF input[1] \in set THEN dedupeFrom(Tail(input), set)
         ELSE <<input[1]>> \o dedupeFrom(Tail(input), set \cup {input[1]})

dedupe(input) == dedupeFrom(input, {})

RECURSIVE Str(_)
\* The string a sequence of characters spells.
Str(s) == IF s = <<>> THEN "" ELSE s[1] \o Str(Tail(s))

-----------------------------------------------------------------------------
(* The source repository, as git reports it. *)

\* Content hashes, as sequences of characters.
Hashes == { <<"a", "a", "1">>, <<"b", "b", "2">> }

\* git branch -a: each line is the current-branch marker ("* " or two
\* spaces) and the reference, here split at "/".  The listing of a fresh
\* clone with branches main and develop.
BranchListing ==
    << [cur |-> TRUE, ref |-> <<"main">>],
       [cur |-> FALSE, ref |-> <<"remotes", "origin", "HEAD -> origin", "main">>],
       [cur |-> FALSE, ref |-> <<"remotes", "origin", "develop">>],
       [cur |-> FALSE, ref |-> <<"remotes", "origin", "main">>] >>

\* The same with a third branch.
BranchListing3 ==
    << [cur |-> TRUE, ref |-> <<"main">>],
       [cur |-> FALSE, ref |-> <<"remotes", "origin", "HEAD -> origin", "main">>],
       [cur |-> FALSE, ref |-> <<"remotes", "origin", "develop">>],
       [cur |-> FALSE, ref |-> <<"remotes", "origin", "exp">>],
       [cur |-> FALSE, ref |-> <<"remotes", "origin", "main">>] >>

\* The same with a branch whose name holds a "/": feature/x.
BranchListingSlash ==
    << [cur |-> TRUE, ref |-> <<"main">>],
       [cur |-> FALSE, ref |-> <<"remotes", "origin", "HEAD -> origin", "main">>],
       [cur |-> FALSE, ref |-> <<"remotes", "origin", "develop">>],
       [cur |-> FALSE, ref |-> <<"remotes", "origin", "feature", "x">>],
       [cur |-> FALSE, ref |-> <<"remotes", "origin", "main">>] >>

RECURSIVE Join(_, _)
\* The words w with sep between them.
Join(w, sep) ==
    IF Len(w) = 0 THEN ""
    ELSE IF Len(w) = 1 THEN w[1]
         ELSE w[1] \o sep \o Join(Tail(w), sep)

\* The line "remotes/origin/HEAD -> origin/<branch>".
IsHead(line) == Len(line.ref) >= 3 /\ line.ref[3] = "HEAD -> origin"

\* The branch a line of the listing stands for: the reference without
\* "remotes/origin/".
OwnName(line) ==
    IF line.ref[1] = "remotes"
    THEN Join(SubSeq(line.ref, 3, Len(line.ref)), "/")
    ELSE Join(line.ref, "/")

\* The branches of the repository: git log origin/<name> can only succeed
\* for one of these.
RefNames(r) ==
    { OwnName(r.listing[i]) : i \in { j \in 1..Len(r.listing) : ~IsHead(r.listing[j]) } }

\* git log origin/<branch>: commit hashes, newest first.
\* The tip of exp is a merge of c2 and c1.
LogOf(b) ==
    CASE b = "main" -> <<"c2", "c1">>
      [] b = "develop" -> <<"c1">>
      [] b = "exp" -> <<"c3", "c2", "c1">>
      [] OTHER -> <<>>

\* %P of a commit.
ParentsOf(c) ==
    CASE c = "c3" -> <<"c2", "c1">>
      [] c = "c2" -> <<"c1">>
      [] OTHER -> <<>>

Commits == {"c1", "c2", "c3"}

\* One line of git ls-tree -r --format="%(objectname) %(path)": the object
\* name and the path, the path as its words between single spaces.
Line(h, p) == [name |-> h, path |-> p]

F1 == Line(<<"a", "a", "1">>, <<"f.txt">>)
G1 == Line(<<"a", "a", "1">>, <<"g.png">>)
G2 == Line(<<"b", "b", "2">>, <<"g.png">>)
I1 == Line(<<"a", "a", "1">>, <<"index">>)
S1 == Line(<<"a", "a", "1">>, <<"my", "f.txt">>)
S2 == Line(<<"b", "b", "2">>, <<"my", "g.png">>)

\* Histories: the output of git ls-tree for each commit.  A file kept from
\* c1 to c2, a file renamed, a file added, a file named index, two files
\* whose names hold a space.
Histories ==
    { [c1 |-> <<F1>>, c2 |-> <<F1>>],
      [c1 |-> <<F1>>, c2 |-> <<G1>>],
      [c1 |-> <<F1>>, c2 |-> <<F1, G2>>],
      [c1 |-> <<I1>>, c2 |-> <<F1, I1>>],
      [c1 |-> <<S1>>, c2 |-> <<S1, S2>>] }

\* One line of git diff --stat: the file's extension and whether the line
\* holds "Bin".  No file changed; a picture changed; a .txt file git takes
\* for binary and then an ordinary .txt file changed.
StatOutputs ==
    { <<>>,
      << [ext |-> ".png", bin |-> TRUE] >>,
      << [ext |-> ".txt", bin |-> TRUE], [ext |-> ".txt", bin |-> FALSE] >> }

\* Branch whitelists the -b flags can give (manyflag.Set keeps them
\* duplicate free).
Whitelists ==
    { <<>>, <<"develop", "main">>, <<"main", "nope">> }

\* filepath.Ext on the paths of the model.
Ext(p) ==
    CASE p = "f.txt" -> ".txt"
      [] p = "g.txt" -> ".txt"
      [] p = "g.png" -> ".png"
      [] OTHER -> ""

\* Longer content hashes: two that differ in the third character only, one
\* that differs from them in the second, one in the first.
StoreHashes ==
    { <<"a", "a", "1", "1">>, <<"a", "a", "2", "1">>, <<"a", "b", "1", "1">>,
      <<"b", "a", "1", "1">> }

\* What git show prints for the object of a hash, as characters: lines that
\* end with a newline, a last line without one, one line without newline,
\* nothing.
ShowOf(h) ==
    CASE h = <<"a", "a", "1", "1">> -> <<"x", "\n", "y">>
      [] h = <<"a", "a", "2", "1">> -> <<"x">>
      [] h = <<"a", "b", "1", "1">> -> <<>>
      [] h = <<"b", "b", "2">> -> <<"x", "\n", "y", "\n">>
      [] OTHER -> <<"x", "\n">>

-----------------------------------------------------------------------------
(* types.go *)

\* object.Dir with the rest of the hash taken one character too late.
DirOffByOne(h) == Str(SubSeq(h, 1, 2)) \o "/" \o Str(SubSeq(h, 4, Len(h)))

\* object.Dir: the first two characters, a separator, the rest.
Dir(h) == Str(SubSeq(h, 1, 2)) \o "/" \o Str(SubSeq(h, 3, Len(h)))

\* The zero value of branch.
ZeroBranch == [Name |-> "", Commits |-> <<>>]

-----------------------------------------------------------------------------
(* The output directory. *)

NoFiles == [ino |-> <<>>, data |-> <<>>]

Exists(f, p) == p \in DOMAIN f.ino

\* Content of the file at p.
Content(f, p) == f.data[f.ino[p]]

Empty == [kind |-> "empty", title |-> <<>>, body |-> <<>>]
\* A file whose write or template execution stopped part way.
Partial == [kind |-> "partial", title |-> <<>>, body |-> <<>>]

\* os.Create: a new empty file, or the existing inode truncated.
Create(f, p) ==
    IF Exists(f, p)
    THEN [f EXCEPT !.data[f.ino[p]] = Empty]
    ELSE [ino |-> (p :> p) @@ f.ino, data |-> (p :> Empty) @@ f.data]

\* Writing through the handle os.Create returned.
Put(f, p, c) == [f EXCEPT !.data[f.ino[p]] = c]

\* os.Link(dst, lnk), lnk absent.
Link(f, dst, lnk) == [f EXCEPT !.ino = (lnk :> f.ino[dst]) @@ f.ino]

\* A directory.
Directory == [kind |-> "dir", title |-> <<>>, body |-> <<>>]

\* The entry of the directory top of the output directory.
DirPath(top) == <<top, "", "">>

\* os.MkdirAll of a top-level directory.
MkdirAll(f, top) ==
    IF Exists(f, DirPath(top)) THEN f
    ELSE [ino |-> (DirPath(top) :> DirPath(top)) @@ f.ino,
          data |-> (DirPath(top) :> Directory) @@ f.data]

\* What the user keeps in the output directory next to the generated
\* pages: a stylesheet and a picture in a directory of its own.
UserFiles ==
    LET css == <<"", "", "style.css">>
        png == <<"assets", "", "logo.png">>
        file == [kind |-> "user", title |-> <<>>, body |-> <<>>]
    IN  [ino |-> (css :> css) @@ (png :> png), data |-> (css :> file) @@ (png :> file)]

\* os.RemoveAll of the output directory itself.
RemoveAllBase(f, top) == NoFiles

\* os.RemoveAll of a top-level directory.
RemoveAll(f, top) ==
    LET keep == { p \in DOMAIN f.ino : p[1] # top }
        inos == { f.ino[p] : p \in keep }
    IN  [ino |-> [p \in keep |-> f.ino[p]], data |-> [i \in inos |-> f.data[i]]]

RECURSIVE initFrom(_, _, _, _, _)
\* project.init's loop over dirs: with force a directory that is not exempt
\* is removed, then the directory is made; outcome o names the call that
\* fails, at which init returns.
initFrom(f, force, exempt, dirs, o) ==
    IF dirs = <<>> THEN f
    ELSE LET dir == dirs[1]
             clear == force /\ dir \notin exempt
         IN  IF clear /\ o = "remove " \o dir THEN f
             ELSE LET f1 == IF clear THEN RemoveAll(f, dir) ELSE f
                  IN  IF o = "mkdir " \o dir THEN f1
                      ELSE initFrom(MkdirAll(f1, dir), force, exempt, Tail(dirs), o)

\* project.init clearing the branch directory as well.
initClearAll(f, force, o) == initFrom(f, force, {}, <<"branch", "commit", "object">>, o)

\* project.init.
init(f, force, o) == initFrom(f, force, {"branch"}, <<"branch", "commit", "object">>, o)

\* What can happen in project.init.
InitOutcomes(force) ==
    {"ok", "mkdir branch", "mkdir commit", "mkdir object"}
    \cup (IF force THEN {"remove commit", "remove object"} ELSE {})

ObjectPath(h) == <<"object", "", Dir(h)>>
ObjectPagePath(h) == <<"object", "", Dir(h) \o ".html">>
LinkPath(c, path) == <<"commit", c, path \o ".html">>
CommitPagePath(c) == <<"commit", c, "index.html">>
DiffPagePath(c, par) == <<"commit", c, "diff-" \o par \o ".html">>
BranchPagePath(name) == <<"branch", name, "index.html">>
MainIndexPath == <<"", "", "index.html">>

-----------------------------------------------------------------------------
(* options.go: the parsers. *)

\* treeParser's feed: the output without its last newline, split at "\n",
\* each line as its words (the line split at " ").  Empty output is one
\* empty line, which is one empty word.
Feed(listing) ==
    IF listing = <<>> THEN << <<"">> >>
    ELSE [i \in 1..Len(listing) |-> <<listing[i].name>> \o listing[i].path]

\* treeParser reads w[1] of a line that has one word: index out of range.
treePanics(listing) == \E i \in DOMAIN Feed(listing) : Len(Feed(listing)[i]) < 2

\* treeParser: one object per line of the feed: w[0] is the hash and w[1]
\* the path.
treeParser(listing) ==
    [i \in DOMAIN Feed(listing) |->
        LET w == Feed(listing)[i]
        IN  [Hash |-> w[1], Path |-> w[2]]]

RECURSIVE diffStatParser(_, _)
\* diffStatParser's writes to types: types[ext] = strings.Contains(line, "Bin")
\* for each line of the output, in order.
diffStatParser(t, lines) ==
    IF lines = <<>> THEN t
    ELSE diffStatParser((lines[1].ext :> lines[1].bin) @@ t, Tail(lines))

\* git diff --stat parent..h
StatOf(r, h, parent) == IF h = "c2" /\ parent = "c1" THEN r.stat ELSE <<>>

RECURSIVE historyBreak(_, _, _)
\* commitParser's loop over the parents leaving at the first diff-stat that
\* fails.
historyBreak(r, h, ps) ==
    IF ps = <<>> \/ <<h, ps[1]>> \in r.badstat THEN <<>>
    ELSE <<[Body |-> StatOf(r, h, ps[1]), Hash |-> h, Parent |-> ps[1]]>>
            \o historyBreak(r, h, Tail(ps))

RECURSIVE historyFrom(_, _, _)
\* commitParser's loop over the parents ps of h: a parent whose diff-stat
\* fails is passed over (continue), an overview is appended for the others.
historyFrom(r, h, ps) ==
    IF ps = <<>> THEN <<>>
    ELSE (IF <<h, ps[1]>> \in r.badstat THEN <<>>
          ELSE <<[Body |-> StatOf(r, h, ps[1]), Hash |-> h, Parent |-> ps[1]]>>)
            \o historyFrom(r, h, Tail(ps))

\* The commit struct commitParser builds for hash h.
CommitOf(r, h) ==
    [Hash |-> h, Abbr |-> h, Parents |-> ParentsOf(h), Tree |-> treeParser(r.tree[h]),
     History |-> historyFrom(r, h, ParentsOf(h))]

\* commitParser skips the commit h of branch b: its date does not parse, or
\* git show (the body) or git ls-tree fails for it.
Skipped(r, b, h, drop) == h \in r.baddate \/ <<b, h>> \in drop

RECURSIVE commitParserBreak(_, _, _, _)
\* commitParser's loop leaving at the first commit it cannot parse.
commitParserBreak(r, b, log, drop) ==
    IF log = <<>> \/ Skipped(r, b, log[1], drop) THEN <<>>
    ELSE <<CommitOf(r, log[1])>> \o commitParserBreak(r, b, Tail(log), drop)

RECURSIVE commitParserFrom(_, _, _, _)
\* commitParser's loop over the lines log of git log: a commit that cannot
\* be parsed is skipped (continue), the others are appended in order.
commitParserFrom(r, b, log, drop) ==
    IF log = <<>> THEN <<>>
    ELSE (IF Skipped(r, b, log[1], drop) THEN <<>> ELSE <<CommitOf(r, log[1])>>)
            \o commitParserFrom(r, b, Tail(log), drop)

\* commitParser: the commits of the branch's log, in log order.
commitParser(r, b, drop) == commitParserFrom(r, b, LogOf(b), drop)

\* commitParser panics: treeParser is called for a commit (not skipped
\* before) whose tree listing makes it panic.
commitPanics(r, b, drop) ==
    \E i \in 1..Len(LogOf(b)) :
        ~Skipped(r, b, LogOf(b)[i], drop) /\ treePanics(r.tree[LogOf(b)[i]])

RECURSIVE StatParents(_, _, _, _)
\* types after the diffStatParser calls for commit h and its parents ps; a
\* call whose git diff --stat fails returns before it writes.
StatParents(r, t, h, ps) ==
    IF ps = <<>> THEN t
    ELSE StatParents(r, IF <<h, ps[1]>> \in r.badstat THEN t
                        ELSE diffStatParser(t, StatOf(r, h, ps[1])), h, Tail(ps))

RECURSIVE StatCommits(_, _, _)
\* types after the diffStatParser calls commitParser makes for the commits
\* cs (one per parent of each commit).
StatCommits(r, t, cs) ==
    IF cs = <<>> THEN t
    ELSE StatCommits(r, StatParents(r, t, cs[1], ParentsOf(cs[1])), Tail(cs))

RECURSIVE StatBranches(_, _, _)
\* types after commitParser ran for the branches bs, in that order.
StatBranches(r, t, bs) ==
    IF bs = <<>> THEN t
    ELSE StatBranches(r, StatCommits(r, t, LogOf(bs[1])), Tail(bs))

\* Sequences that list every element of S once: the orders in which a
\* range over a Go map may visit its keys.
Orders(S) ==
    { s \in [1..Cardinality(S) -> S] : \A i, j \in 1..Cardinality(S) : s[i] = s[j] => i = j }

\* The name branchFilter takes from one line of the listing: the marker
\* and the spaces trimmed, then the last path element (filepath.Split).
BranchName(line) == line.ref[Len(line.ref)]

\* The keys of m.
BranchNames(r) == { BranchName(r.listing[i]) : i \in 1..Len(r.listing) }

\* The keys k with m[k] true after the filter of the whitelist.
Selected(r, whitelist) ==
    IF Len(whitelist) > 0
    THEN { n \in BranchNames(r) : contains(whitelist, n) }
    ELSE BranchNames(r)

\* branchFilter with the result filled in the order of the listing instead
\* of the order of the whitelist.
branchFilterListingOrder(r, wl, failing, drop) ==
    LET names == dedupe([i \in 1..Len(r.listing) |-> BranchName(r.listing[i])])
        order == SelectSeq(names, LAMBDA n : n \in Selected(r, wl))
    IN  [i \in 1..Len(order) |->
            IF order[i] \notin failing
            THEN [Name |-> order[i], Commits |-> commitParser(r, order[i], drop)]
            ELSE ZeroBranch]

\* branchFilter's result: b[v] for each v of the whitelist, in order, where
\* b holds the selected branches whose commitParser call succeeded.  wl is
\* the local whitelist (the given one, or the map's keys in visiting order),
\* failing the branches whose git log fails, drop the commits left out.
branchFilter(r, wl, failing, drop) ==
    [i \in 1..Len(wl) |->
        IF wl[i] \in Selected(r, wl) \ failing
        THEN [Name |-> wl[i], Commits |-> commitParser(r, wl[i], drop)]
        ELSE ZeroBranch]

-----------------------------------------------------------------------------
(* project.go: the pages. *)

BlobContent(h) == [kind |-> "blob", title |-> <<>>, body |-> <<Str(h)>>]

\* bytes.Count(out, "\n").
RECURSIVE Count(_)
Count(out) ==
    IF out = <<>> THEN 0
    ELSE (IF out[1] = "\n" THEN 1 ELSE 0) + Count(Tail(out))

\* bytes.LastIndex(out, "\n"): the index, from 0, of the last newline, or -1.
RECURSIVE LastIndex(_)
LastIndex(out) ==
    IF out = <<>> THEN -1
    ELSE IF out[Len(out)] = "\n" THEN Len(out) - 1
         ELSE LastIndex(SubSeq(out, 1, Len(out) - 1))

\* writeObject's lines: 1 .. Count(out), and len(lines) appended when the
\* output does not end with a newline.
lineNumbers(out) ==
    LET lines == [i \in 1..Count(out) |-> i]
    IN  IF LastIndex(out) # Len(out) - 1 THEN Append(lines, Len(lines)) ELSE lines

\* writeObject's page with types[ext] read as true for an extension that
\* is no key of types.
ObjectPageDefaultBinary(t, obj, b, c) ==
    LET e == Ext(obj.Path)
        bin == IF e \in DOMAIN t THEN t[e] ELSE TRUE
    IN  [kind |-> "object", title |-> <<b.Name, c.Abbr, obj.Path>>,
         body |-> <<Str(obj.Hash), IF bin THEN "Bin" ELSE "",
                    IF bin THEN "" ELSE "Lines", IF bin THEN "" ELSE "Body">>,
         lines |-> IF bin THEN <<>> ELSE lineNumbers(ShowOf(obj.Hash))]

\* The page writeObject renders: the title names branch, commit and path;
\* the show struct is the object, Bin = types[ext] (false for an extension
\* that is no key), and Lines and Body, set unless Bin; lines holds the line
\* numbers.
ObjectPage(t, obj, b, c) ==
    LET e == Ext(obj.Path)
        bin == IF e \in DOMAIN t THEN t[e] ELSE FALSE
    IN  [kind |-> "object", title |-> <<b.Name, c.Abbr, obj.Path>>,
         body |-> <<Str(obj.Hash), IF bin THEN "Bin" ELSE "",
                    IF bin THEN "" ELSE "Lines", IF bin THEN "" ELSE "Body">>,
         lines |-> IF bin THEN <<>> ELSE lineNumbers(ShowOf(obj.Hash))]

CommitPage(b, c) ==
    [kind |-> "commit", title |-> <<b.Name, c.Abbr>>, body |-> <<c.Hash>>]

DiffPage(b, c, par) ==
    [kind |-> "diff", title |-> <<b.Name, c.Abbr>>, body |-> <<c.Hash, par>>]

BranchPage(b) ==
    [kind |-> "branch", title |-> <<b.Name>>,
     body |-> [i \in 1..Len(b.Commits) |-> b.Commits[i].Hash]]

MainIndexPage(bs) ==
    [kind |-> "index", title |-> <<>>, body |-> [i \in 1..Len(bs) |-> bs[i].Name]]

\* What can happen in writeObjectBlob.
BlobOutcomes(f, obj) ==
    IF Exists(f, ObjectPath(obj.Hash)) THEN {"skip"}
    ELSE {"ok", "cat-file", "create", "write"}

\* writeObjectBlob with outcome o.
writeObjectBlob(f, obj, o) ==
    LET dst == ObjectPath(obj.Hash)
    IN  CASE o \in {"skip", "cat-file", "create"} -> f
          [] o = "write" -> Put(Create(f, dst), dst, Partial)
          [] OTHER -> Put(Create(f, dst), dst, BlobContent(obj.Hash))

\* What can happen in writeObject.
ObjectOutcomes(f, t, obj, c) ==
    IF Exists(f, LinkPath(c.Hash, obj.Path)) THEN {"skip"}
    ELSE {"ok", "create", "execute", "mkdir", "link"}
         \cup (LET e == Ext(obj.Path)
               IN IF e \in DOMAIN t /\ t[e] THEN {} ELSE {"show"})

\* writeObject with outcome o: the existence test is on the link in the
\* commit directory; the page is created in the object store before git show
\* runs.
writeObject(f, t, obj, b, c, o) ==
    LET dst == ObjectPagePath(obj.Hash)
        lnk == LinkPath(c.Hash, obj.Path)
        f1  == Create(f, dst)
        f2  == Put(f1, dst, ObjectPage(t, obj, b, c))
    IN  CASE o \in {"skip", "create"} -> f
          [] o = "show" -> f1
          [] o = "execute" -> Put(f1, dst, Partial)
          [] o \in {"mkdir", "link"} -> f2
          [] OTHER -> Link(f2, dst, lnk)

\* What can happen in a function that creates a page and executes the
\* template on it.
PageOutcomes == {"ok", "create", "execute"}

\* os.Create of p, then the template executed with page c, with outcome o.
writePage(f, p, c, o) ==
    CASE o = "create" -> f
      [] o = "execute" -> Put(Create(f, p), p, Partial)
      [] OTHER -> Put(Create(f, p), p, c)

\* writeCommitDiff: git diff -p runs before the page is created.
writeCommitDiff(f, b, c, par, o) ==
    IF o = "diff" THEN f
    ELSE writePage(f, DiffPagePath(c.Hash, par), DiffPage(b, c, par), o)

writeCommitPage(f, b, c, o) ==
    writePage(f, CommitPagePath(c.Hash), CommitPage(b, c), o)

\* 1 for an outcome that is a failure.
Failed(o) == IF o \in {"ok", "skip"} THEN 0 ELSE 1

-----------------------------------------------------------------------------
(* main and writePages, step by step. *)

RECURSIVE PositionSkipObjects(_, _, _, _, _)
\* writePages' loops with the commit page written right after the diffs.
PositionSkipObjects(bs, p, b, c, n) ==
    CASE p = "branch" ->
            IF b > Len(bs) THEN [pc |-> "index", bi |-> b, ci |-> 1, k |-> 1]
            ELSE [pc |-> p, bi |-> b, ci |-> 1, k |-> 1]
      [] p = "mkdir" ->
            IF c > Len(bs[b].Commits) THEN PositionSkipObjects(bs, "branch", b + 1, 1, 1)
            ELSE [pc |-> p, bi |-> b, ci |-> c, k |-> 1]
      [] p = "diff" ->
            IF n > Len(bs[b].Commits[c].Parents) THEN [pc |-> "page", bi |-> b, ci |-> c, k |-> 1]
            ELSE [pc |-> p, bi |-> b, ci |-> c, k |-> n]
      [] OTHER -> [pc |-> p, bi |-> b, ci |-> c, k |-> n]

RECURSIVE Position(_, _, _, _, _)
\* The next call writePages makes from loop position (p, b, c, n): "branch"
\* starts a branch, "mkdir" a commit, "diff" a parent, "object" a tree
\* object, "page" the commit page; "index" is past the last branch.
Position(bs, p, b, c, n) ==
    CASE p = "branch" ->
            IF b > Len(bs) THEN [pc |-> "index", bi |-> b, ci |-> 1, k |-> 1]
            ELSE [pc |-> p, bi |-> b, ci |-> 1, k |-> 1]
      [] p = "mkdir" ->
            IF c > Len(bs[b].Commits) THEN Position(bs, "branch", b + 1, 1, 1)
            ELSE [pc |-> p, bi |-> b, ci |-> c, k |-> 1]
      [] p = "diff" ->
            IF n > Len(bs[b].Commits[c].Parents) THEN Position(bs, "object", b, c, 1)
            ELSE [pc |-> p, bi |-> b, ci |-> c, k |-> n]
      [] p = "object" ->
            IF n > Len(bs[b].Commits[c].Tree) THEN [pc |-> "page", bi |-> b, ci |-> c, k |-> 1]
            ELSE [pc |-> p, bi |-> b, ci |-> c, k |-> n]
      [] OTHER -> [pc |-> p, bi |-> b, ci |-> c, k |-> n]

\* main moves on to loop position pos.
Goto(pos) == pc' = pos.pc /\ bi' = pos.bi /\ ci' = pos.ci /\ k' = pos.k

\* main returns.
Return == pc' = "exit" /\ exitCode' = 0 /\ UNCHANGED <<bi, ci, k, fatal>>

\* log.Printf(msg) and a plain return in the place of log.Fatalf.
FatalfReturns(msg) == pc' = "exit" /\ exitCode' = 0 /\ fatal' = msg /\ UNCHANGED <<bi, ci, k>>

\* log.Fatalf(msg): the process ends at once with status 1.
Fatalf(msg) == pc' = "exit" /\ exitCode' = 1 /\ fatal' = msg /\ UNCHANGED <<bi, ci, k>>

\* A run-time panic: the process ends at once with status 2.
Panic(msg) == pc' = "exit" /\ exitCode' = 2 /\ fatal' = msg /\ UNCHANGED <<bi, ci, k>>

Fail(n) == failures + n <= MaxFailures /\ failures' = failures + n

\* No config file in the output directory.
NoConfig == <<>>

\* No flag on the command line, no config file.
NoFlags == args = <<>> /\ argi = 1 /\ config = NoConfig /\ discard = FALSE

\* The tests are not run.
NoResult == [contains |-> <<>>, dedupe |-> <<>>]

NoTest == words = <<>> /\ got = NoResult

TypeOK ==
    /\ run \in 1..MaxRuns
    /\ pc \in {"flags", "merge", "config", "test",
               "init", "save", "filter", "update", "branch", "mkdir", "diff",
               "object", "page", "index", "exit"}
    /\ exitCode \in {-1, 0, 1, 2}
    /\ failures \in 0..MaxFailures

Init ==
    /\ repo \in [listing : {BranchListing}, tree : Histories, stat : StatOutputs,
                 baddate : {{}}, badstat : {{}}]
    /\ opt \in [Branches : Whitelists, Force : {FALSE}, Name : {"Jimbo"}, Quiet : {FALSE}]
    /\ run = 1
    /\ pc = "init"
    /\ exitCode = -1
    /\ types = <<>>
    /\ branches = <<>>
    /\ failedLogs = {}
    /\ dropped = {}
    /\ fatal = ""
    /\ bi = 1 /\ ci = 1 /\ k = 1
    /\ task = <<>>
    /\ fs = UserFiles
    /\ prev = UserFiles
    /\ attempted = {}
    /\ failures = 0
    /\ NoFlags
    /\ NoTest

\* project.init: the three directories are made, with -f the commit and
\* object directories are removed first; a failure is fatal.
ProjectInit ==
    /\ pc = "init"
    /\ \E o \in InitOutcomes(opt.Force) :
        /\ Fail(Failed(o))
        /\ fs' = init(fs, opt.Force, o)
        /\ IF o = "ok"
           THEN pc' = "save" /\ UNCHANGED <<exitCode, fatal, bi, ci, k>>
           ELSE Fatalf("unable to initialize output directory")
    /\ UNCHANGED <<flagvars, testvars, repo, opt, run, types, branches, failedLogs, dropped, task, prev, attempted>>

\* project.save: git clone; a failure is fatal.
ProjectSave ==
    /\ pc = "save"
    /\ \E o \in {"ok", "clone"} :
        /\ Fail(Failed(o))
        /\ IF o = "ok"
           THEN pc' = "filter" /\ UNCHANGED <<exitCode, fatal, bi, ci, k>>
           ELSE Fatalf("unable to set up repo")
    /\ UNCHANGED <<flagvars, testvars, repo, opt, run, types, branches, failedLogs, dropped, task, fs, prev, attempted>>

\* branchFilter: a failure of git branch -a is fatal; a failure of git log
\* for one branch (an injected one, or a name that is no branch of the
\* repository) leaves that branch out of b; a failure of git show or git
\* ls-tree for one commit leaves that commit out of its branch; treeParser
\* panics on a listing line without a space.
BranchFilter ==
    /\ pc = "filter"
    /\ \E o \in {"ok", "branch"} :
        IF o = "ok"
        THEN \E wl \in (IF Len(opt.Branches) > 0 THEN {opt.Branches}
                        ELSE Orders(BranchNames(repo))) :
             \E injected \in SUBSET (Selected(repo, wl) \cap RefNames(repo)) :
             LET failing == injected \cup (Selected(repo, wl) \ RefNames(repo)) IN
             \E order \in Orders(Selected(repo, wl) \ failing) :
             \E drop \in SUBSET { x \in (Selected(repo, wl) \ failing) \X Commits :
                                    contains(LogOf(x[1]), x[2]) /\ x[2] \notin repo.baddate } :
                /\ Fail(Cardinality(injected) + Cardinality(drop))
                /\ failedLogs' = failing
                /\ dropped' = drop
                /\ IF \E b \in Selected(repo, wl) \ failing : commitPanics(repo, b, drop)
                   THEN /\ Panic("index out of range")
                        /\ UNCHANGED <<branches, types>>
                   ELSE /\ branches' = branchFilter(repo, wl, failing, drop)
                        /\ types' = StatBranches(repo, types, order)
                        /\ pc' = "update"
                        /\ UNCHANGED <<exitCode, fatal, bi, ci, k>>
        ELSE /\ Fail(1)
             /\ Fatalf("unable to filter branches")
             /\ UNCHANGED <<branches, failedLogs, dropped, types>>
    /\ UNCHANGED <<flagvars, testvars, repo, opt, run, task, fs, prev, attempted>>

\* updateBranches: git fetch for each branch; a failure is logged.
UpdateBranches ==
    /\ pc = "update"
    /\ \E o \in {"ok", "fetch"} : Fail(Failed(o))
    /\ Goto(Position(branches, "branch", 1, 1, 1))
    /\ UNCHANGED <<flagvars, testvars, repo, opt, run, exitCode, types, branches, failedLogs, dropped, fatal, task, fs,
                   prev, attempted>>

\* writePages clearing types when it starts a branch.
StartBranchResets ==
    /\ pc = "branch"
    /\ task' = (bi :> "ready") @@ task
    /\ types' = <<>>
    /\ Goto(Position(branches, "mkdir", bi, 1, 1))
    /\ UNCHANGED <<flagvars, testvars, repo, opt, run, exitCode, branches, failedLogs, dropped,
                   fatal, fs, prev, attempted, failures>>

\* writePages, per branch: go p.writeBranchPage(b).
StartBranch ==
    /\ pc = "branch"
    /\ task' = (bi :> "ready") @@ task
    /\ Goto(Position(branches, "mkdir", bi, 1, 1))
    /\ UNCHANGED <<flagvars, testvars, repo, opt, run, exitCode, types, branches, failedLogs, dropped, fatal, fs, prev,
                   attempted, failures>>

\* writePages, per commit: os.MkdirAll of the commit directory; on failure
\* the loop continues with the next commit.
CommitDir ==
    /\ pc = "mkdir"
    /\ \E o \in {"ok", "mkdir"} :
        /\ Fail(Failed(o))
        /\ IF o = "ok"
           THEN Goto(Position(branches, "diff", bi, ci, 1))
           ELSE Goto(Position(branches, "mkdir", bi, ci + 1, 1))
    /\ attempted' = attempted \cup {<<"commit", bi, ci, 0>>}
    /\ UNCHANGED <<flagvars, testvars, repo, opt, run, exitCode, types, branches, failedLogs, dropped, fatal, task, fs,
                   prev>>

\* writePages, per parent: writeCommitDiff.
CommitDiff ==
    /\ pc = "diff"
    /\ LET b == branches[bi]
           c == b.Commits[ci]
       IN  \E o \in PageOutcomes \cup {"diff"} :
            /\ Fail(Failed(o))
            /\ fs' = writeCommitDiff(fs, b, c, c.Parents[k], o)
    /\ attempted' = attempted \cup {<<"diff", bi, ci, k>>}
    /\ Goto(Position(branches, "diff", bi, ci, k + 1))
    /\ UNCHANGED <<flagvars, testvars, repo, opt, run, exitCode, types, branches, failedLogs, dropped, fatal, task, prev>>

\* writePages, per tree object: os.MkdirAll of the object directory, then
\* writeObjectBlob and writeObject.
TreeObject ==
    /\ pc = "object"
    /\ LET b == branches[bi]
           c == b.Commits[ci]
           obj == c.Tree[k]
       IN  \E m \in {"ok", "mkdir"} :
            IF m = "ok"
            THEN \E ob \in BlobOutcomes(fs, obj) :
                 \E oo \in ObjectOutcomes(writeObjectBlob(fs, obj, ob), types, obj, c) :
                    /\ Fail(Failed(ob) + Failed(oo))
                    /\ fs' = writeObject(writeObjectBlob(fs, obj, ob), types, obj, b, c, oo)
            ELSE Fail(1) /\ fs' = fs
    /\ attempted' = attempted \cup {<<"object", bi, ci, k>>}
    /\ Goto(Position(branches, "object", bi, ci, k + 1))
    /\ UNCHANGED <<flagvars, testvars, repo, opt, run, exitCode, types, branches, failedLogs, dropped, fatal, task, prev>>

\* writePages, per commit: writeCommitPage.
CommitIndex ==
    /\ pc = "page"
    /\ LET b == branches[bi]
           c == b.Commits[ci]
       IN  \E o \in PageOutcomes :
            /\ Fail(Failed(o))
            /\ fs' = writeCommitPage(fs, b, c, o)
    /\ attempted' = attempted \cup {<<"page", bi, ci, 0>>}
    /\ Goto(Position(branches, "mkdir", bi, ci + 1, 1))
    /\ UNCHANGED <<flagvars, testvars, repo, opt, run, exitCode, types, branches, failedLogs, dropped, fatal, task, prev>>

\* writeMainIndex, then main returns: a failure to create the page or to
\* execute the template is fatal.
MainIndex ==
    /\ pc = "index"
    /\ \E o \in PageOutcomes :
        /\ Fail(Failed(o))
        /\ fs' = writePage(fs, MainIndexPath, MainIndexPage(branches), o)
        /\ CASE o = "create" -> Fatalf("unable to create home page")
             [] o = "execute" -> Fatalf("unable to apply template")
             [] OTHER -> Return
    /\ attempted' = attempted \cup {<<"index", 0, 0, 0>>}
    /\ UNCHANGED <<flagvars, testvars, repo, opt, run, types, branches, failedLogs, dropped, task, prev>>

\* The goroutine writeBranchPage(branches[i]), first half: os.MkdirAll (a
\* failure is fatal) and os.Create (a failure is logged).
BranchPageCreate(i) ==
    /\ pc # "exit"
    /\ i \in DOMAIN task
    /\ task[i] = "ready"
    /\ \E o \in {"ok", "mkdir", "create"} :
        /\ Fail(Failed(o))
        /\ CASE o = "mkdir" ->
                    /\ Fatalf("unable to create branch directory")
                    /\ UNCHANGED <<fs, task>>
             [] o = "create" ->
                    /\ task' = [task EXCEPT ![i] = "done"]
                    /\ UNCHANGED <<fs, pc, exitCode, fatal, bi, ci, k>>
             [] OTHER ->
                    /\ fs' = Create(fs, BranchPagePath(branches[i].Name))
                    /\ task' = [task EXCEPT ![i] = "created"]
                    /\ UNCHANGED <<pc, exitCode, fatal, bi, ci, k>>
    /\ attempted' = attempted \cup {<<"branch", i, 0, 0>>}
    /\ UNCHANGED <<flagvars, testvars, repo, opt, run, types, branches, failedLogs, dropped, prev>>

\* The goroutine writeBranchPage(branches[i]), second half: the template is
\* executed on the created file.
BranchPageExecute(i) ==
    /\ pc # "exit"
    /\ i \in DOMAIN task
    /\ task[i] = "created"
    /\ \E o \in {"ok", "execute"} :
        /\ Fail(Failed(o))
        /\ fs' = Put(fs, BranchPagePath(branches[i].Name),
                     IF o = "ok" THEN BranchPage(branches[i]) ELSE Partial)
    /\ task' = [task EXCEPT ![i] = "done"]
    /\ UNCHANGED <<flagvars, testvars, repo, opt, run, pc, exitCode, types, branches, failedLogs, dropped, fatal,
                   bi, ci, k, prev, attempted>>

\* The program is run again on the same source and on the output directory
\* of a run that completed without a failure.
Rerun ==
    /\ pc = "exit"
    /\ run < MaxRuns
    /\ failures = 0
    /\ \A i \in DOMAIN task : task[i] = "done"
    /\ run' = run + 1
    /\ \E f \in BOOLEAN : opt' = [opt EXCEPT !.Force = f]
    /\ pc' = "init"
    /\ exitCode' = -1
    /\ types' = <<>>
    /\ branches' = <<>>
    /\ failedLogs' = {}
    /\ dropped' = {}
    /\ fatal' = ""
    /\ bi' = 1 /\ ci' = 1 /\ k' = 1
    /\ task' = <<>>
    /\ prev' = fs
    /\ attempted' = {}
    /\ UNCHANGED <<flagvars, testvars, repo, fs, failures>>

Next ==
    \/ ProjectInit
    \/ ProjectSave
    \/ BranchFilter
    \/ UpdateBranches
    \/ StartBranch
    \/ CommitDir
    \/ CommitDiff
    \/ TreeObject
    \/ CommitIndex
    \/ MainIndex
    \/ \E i \in 1..Len(branches) : BranchPageCreate(i)
    \/ \E i \in 1..Len(branches) : BranchPageExecute(i)
    \/ Rerun

Spec == Init /\ [][Next]_vars

-----------------------------------------------------------------------------
(* branchFilter on its own: any whitelist of up to MaxWhitelist names over a
   listing of two or three branches. *)

Names == {"main", "develop", "exp", "nope"}

\* The lists manyflag.Set can build: no name twice.
FilterWhitelists ==
    { w \in UNION { [1..n -> Names] : n \in 0..MaxWhitelist } :
        \A i, j \in 1..Len(w) : w[i] = w[j] => i = j }

InitFilter ==
    /\ repo \in [listing : {BranchListing, BranchListing3, BranchListingSlash},
                 tree : {[c1 |-> <<F1>>, c2 |-> <<F1, G2>>, c3 |-> <<F1, G2>>]},
                 stat : {<<>>}, baddate : {{}}, badstat : {{}}]
    /\ opt \in [Branches : FilterWhitelists, Force : {FALSE}, Name : {"Jimbo"}, Quiet : {FALSE}]
    /\ run = 1
    /\ pc = "filter"
    /\ exitCode = -1
    /\ types = <<>>
    /\ branches = <<>>
    /\ failedLogs = {}
    /\ dropped = {}
    /\ fatal = ""
    /\ bi = 1 /\ ci = 1 /\ k = 1
    /\ task = <<>>
    /\ fs = NoFiles
    /\ prev = NoFiles
    /\ attempted = {}
    /\ failures = 0
    /\ NoFlags
    /\ NoTest

NextFilter == BranchFilter

SpecFilter == InitFilter /\ [][NextFilter]_vars

-----------------------------------------------------------------------------
(* commitParser and treeParser through branchFilter: trees that are empty or
   hold paths with a space, commits whose date does not parse, and failures
   of git show and git ls-tree. *)

ParseTrees ==
    [c1 : {<<>>, <<F1>>, <<S1>>}, c2 : {<<>>, <<F1, G2>>, <<S1, S2>>}]

InitParse ==
    /\ repo \in [listing : {BranchListing}, tree : ParseTrees, stat : StatOutputs,
                 baddate : SUBSET {"c1", "c2"}, badstat : {{}}]
    /\ opt \in [Branches : {<<>>, <<"main">>, <<"develop", "main">>}, Force : {FALSE}, Name : {"Jimbo"}, Quiet : {FALSE}]
    /\ run = 1
    /\ pc = "filter"
    /\ exitCode = -1
    /\ types = <<>>
    /\ branches = <<>>
    /\ failedLogs = {}
    /\ dropped = {}
    /\ fatal = ""
    /\ bi = 1 /\ ci = 1 /\ k = 1
    /\ task = <<>>
    /\ fs = NoFiles
    /\ prev = NoFiles
    /\ attempted = {}
    /\ failures = 0
    /\ NoFlags
    /\ NoTest

NextParse == BranchFilter

SpecParse == InitParse /\ [][NextParse]_vars

-----------------------------------------------------------------------------
(* writePages for a branch whose tip is a merge commit. *)

InitMerge ==
    /\ repo \in [listing : {BranchListing3},
                 tree : {[c1 |-> <<F1>>, c2 |-> <<F1, G2>>, c3 |-> <<F1, G2>>]},
                 stat : StatOutputs, baddate : {{}}, badstat : {{}}]
    /\ opt \in [Branches : {<<"exp">>}, Force : {FALSE}, Name : {"Jimbo"}, Quiet : {FALSE}]
    /\ run = 1
    /\ pc = "init"
    /\ exitCode = -1
    /\ types = <<>>
    /\ branches = <<>>
    /\ failedLogs = {}
    /\ dropped = {}
    /\ fatal = ""
    /\ bi = 1 /\ ci = 1 /\ k = 1
    /\ task = <<>>
    /\ fs = UserFiles
    /\ prev = UserFiles
    /\ attempted = {}
    /\ failures = 0
    /\ NoFlags
    /\ NoTest

SpecMerge == InitMerge /\ [][Next]_vars

-----------------------------------------------------------------------------
(* The object store for longer hashes and contents of several shapes: branch
   main, f.txt in both commits and g.txt in the older one. *)

StoreTrees ==
    { [c1 |-> <<Line(x[1], <<"f.txt">>), Line(x[2], <<"g.txt">>)>>,
       c2 |-> <<Line(x[1], <<"f.txt">>)>>, c3 |-> <<>>] :
        x \in { <<<<"a", "a", "1", "1">>, <<"a", "a", "2", "1">>>>,
                <<<<"a", "a", "2", "1">>, <<"a", "b", "1", "1">>>>,
                <<<<"a", "b", "1", "1">>, <<"b", "a", "1", "1">>>>,
                <<<<"b", "a", "1", "1">>, <<"a", "a", "1", "1">>>>,
                <<<<"a", "a", "1", "1">>, <<"a", "a", "1", "1">>>> } }

InitStore ==
    /\ repo \in [listing : {BranchListing}, tree : StoreTrees, stat : {<<>>},
                 baddate : {{}}, badstat : {{}}]
    /\ opt \in [Branches : {<<"main">>}, Force : {FALSE}, Name : {"Jimbo"}, Quiet : {FALSE}]
    /\ run = 1
    /\ pc = "init"
    /\ exitCode = -1
    /\ types = <<>>
    /\ branches = <<>>
    /\ failedLogs = {}
    /\ dropped = {}
    /\ fatal = ""
    /\ bi = 1 /\ ci = 1 /\ k = 1
    /\ task = <<>>
    /\ fs = UserFiles
    /\ prev = UserFiles
    /\ attempted = {}
    /\ failures = 0
    /\ NoFlags
    /\ NoTest

SpecStore == InitStore /\ [][Next]_vars

-----------------------------------------------------------------------------
(* commitParser on a merge commit whose diff-stats may fail. *)

InitHistory ==
    /\ repo \in [listing : {BranchListing3},
                 tree : {[c1 |-> <<F1>>, c2 |-> <<F1, G2>>, c3 |-> <<F1, G2>>]},
                 stat : StatOutputs, baddate : {{}},
                 badstat : SUBSET {<<"c3", "c2">>, <<"c3", "c1">>, <<"c2", "c1">>}]
    /\ opt \in [Branches : {<<>>, <<"exp">>, <<"exp", "main">>}, Force : {FALSE},
                Name : {"Jimbo"}, Quiet : {FALSE}]
    /\ run = 1
    /\ pc = "filter"
    /\ exitCode = -1
    /\ types = <<>>
    /\ branches = <<>>
    /\ failedLogs = {}
    /\ dropped = {}
    /\ fatal = ""
    /\ bi = 1 /\ ci = 1 /\ k = 1
    /\ task = <<>>
    /\ fs = NoFiles
    /\ prev = NoFiles
    /\ attempted = {}
    /\ failures = 0
    /\ NoFlags
    /\ NoTest

NextHistory == BranchFilter

SpecHistory == InitHistory /\ [][NextHistory]_vars

-----------------------------------------------------------------------------
(* main: the flags and the config file.  Of the string options Name is
   kept, of the boolean options Force and Quiet. *)

\* manyflag.Set appending whatever it is given.
manyflagSetAppend(f, value) == Append(f, value)

\* manyflag.Set: the value is appended unless the list holds it; the error
\* returned is always nil.
manyflagSet(f, value) == IF ~contains(f, value) THEN Append(f, value) ELSE f

\* strconv.ParseBool, as boolValue.Set uses it: the value, false with an
\* error for a string that is no boolean.
ParseBool(str) ==
    CASE str \in {"1", "t", "T", "TRUE", "true", "True"} -> [v |-> TRUE, err |-> FALSE]
      [] str \in {"0", "f", "F", "FALSE", "false", "False"} -> [v |-> FALSE, err |-> FALSE]
      [] OTHER -> [v |-> FALSE, err |-> TRUE]

\* The flags: name, field of options (the field whose lowercased name
\* starts with the flag's name) and kind of value.
FlagNames == <<"b", "f", "n", "q">>

Field(name) ==
    CASE name = "b" -> "Branches"
      [] name = "f" -> "Force"
      [] name = "n" -> "Name"
      [] name = "q" -> "Quiet"

Kind(name) ==
    CASE name = "b" -> "manyflag"
      [] name \in {"f", "q"} -> "bool"
      [] name = "n" -> "string"

\* The options before flag.Parse: the defaults of the flags.
Defaults == [Branches |-> <<>>, Force |-> FALSE, Name |-> "Jimbo", Quiet |-> FALSE]

\* flag.Set(name, str) and the Set of the flag's value: a boolean flag
\* stores what ParseBool returned, error or not.
flagSet(o, name, str) ==
    CASE Kind(name) = "manyflag" ->
            [opt |-> [o EXCEPT !.Branches = manyflagSet(@, str)], err |-> FALSE]
      [] Kind(name) = "string" -> [opt |-> [o EXCEPT ![Field(name)] = str], err |-> FALSE]
      [] Kind(name) = "bool" ->
            [opt |-> [o EXCEPT ![Field(name)] = ParseBool(str).v], err |-> ParseBool(str).err]

\* reflect.Value.String(): the string of a string value; for a value of
\* another kind the text "<T Value>", T the type.
ValueString(kind, v) == IF kind = "string" THEN v ELSE "<" \o kind \o " Value>"

\* The key of a field in the config file (its json tag).
JSONKey(n) ==
    CASE n = "Branches" -> "branches"
      [] n = "Force" -> "force"
      [] n = "Name" -> "name"
      [] n = "Quiet" -> "quiet"

\* The JSON type a field is written as.
JSONType(n) ==
    CASE n = "Branches" -> "array"
      [] n \in {"Force", "Quiet"} -> "bool"
      [] n = "Name" -> "string"

\* json.Unmarshal(cnf, &store): a field whose key the file holds with a
\* value of its type is replaced, a list by nil for null; the others are
\* kept; no file, nothing changes.
Unmarshal(cnf, store) ==
    IF cnf = NoConfig THEN store
    ELSE [n \in DOMAIN store |->
            IF JSONKey(n) \notin DOMAIN cnf THEN store[n]
            ELSE LET v == cnf[JSONKey(n)]
                 IN  IF v[1] = JSONType(n) THEN v[2]
                     ELSE IF v[1] = "null" /\ JSONType(n) = "array" THEN <<>>
                          ELSE store[n]]

\* The flags flag.Visit reports: those the command line set.
flagset(a) == { a[i][1] : i \in 1..Len(a) }

RECURSIVE SetEach(_, _, _)
\* flag.Set(name, b) for every b of the list.
SetEach(o, name, list) ==
    IF list = <<>> THEN o
    ELSE SetEach(flagSet(o, name, list[1]).opt, name, Tail(list))

RECURSIVE VisitAll(_, _, _, _)
\* flag.VisitAll: a flag the command line did not set is set from the field
\* of store, a list element by element, anything else as v.String().
VisitAll(o, store, set, names) ==
    IF names = <<>> THEN o
    ELSE LET f == names[1]
             v == store[Field(f)]
             o1 == IF f \in set THEN o
                   ELSE IF Kind(f) = "manyflag" THEN SetEach(o, f, v)
                        ELSE flagSet(o, f, ValueString(Kind(f), v)).opt
         IN  VisitAll(o1, store, set, Tail(names))

\* options.save: the options as the JSON object of the config file, a nil
\* list as null.
Marshal(o) ==
    [key \in { JSONKey(n) : n \in DOMAIN o } |->
        LET n == CHOOSE m \in DOMAIN o : JSONKey(m) = key
        IN  IF JSONType(n) = "array" /\ o[n] = <<>> THEN <<"null">>
            ELSE <<JSONType(n), o[n]>>]

\* Command lines: no flag, branches (repeated, in two orders), the boolean
\* flags, -f=false, -f with a value that is no boolean, the name given once
\* and twice.
ArgLists ==
    { <<>>,
      <<<<"b", "main">>>>,
      <<<<"b", "develop">>, <<"b", "main">>>>,
      <<<<"b", "main">>, <<"b", "main">>>>,
      <<<<"b", "main">>, <<"b", "develop">>, <<"b", "main">>>>,
      <<<<"f", "true">>>>,
      <<<<"f", "false">>>>,
      <<<<"f", "maybe">>>>,
      <<<<"q", "true">>>>,
      <<<<"n", "x">>>>,
      <<<<"n", "x">>, <<"n", "y">>>>,
      <<<<"b", "main">>, <<"f", "true">>>> }

\* Config files: none, and files that hold some of the options.
Configs ==
    { NoConfig,
      [force |-> <<"bool", TRUE>>],
      [quiet |-> <<"bool", TRUE>>],
      [name |-> <<"string", "saved">>, branches |-> <<"array", <<"develop", "main">>>>] }

InitFlags ==
    /\ repo \in [listing : {BranchListing}, tree : {[c1 |-> <<F1>>, c2 |-> <<F1>>]},
                 stat : {<<>>}, baddate : {{}}, badstat : {{}}]
    /\ opt = Defaults
    /\ run = 1
    /\ pc = "flags"
    /\ exitCode = -1
    /\ types = <<>>
    /\ branches = <<>>
    /\ failedLogs = {}
    /\ dropped = {}
    /\ fatal = ""
    /\ bi = 1 /\ ci = 1 /\ k = 1
    /\ task = <<>>
    /\ fs = UserFiles
    /\ prev = UserFiles
    /\ attempted = {}
    /\ failures = 0
    /\ args \in ArgLists
    /\ argi = 1
    /\ config \in Configs
    /\ discard = FALSE
    /\ NoTest

\* flag.Parse, one flag: the value is set; an error ends the process with
\* status 2 (flag.ExitOnError).
FlagParse ==
    /\ pc = "flags"
    /\ argi <= Len(args)
    /\ LET r == flagSet(opt, args[argi][1], args[argi][2])
       IN  /\ opt' = r.opt
           /\ IF r.err
              THEN /\ pc' = "exit" /\ exitCode' = 2 /\ fatal' = "invalid value"
                   /\ UNCHANGED argi
              ELSE /\ argi' = argi + 1
                   /\ UNCHANGED <<pc, exitCode, fatal>>
    /\ UNCHANGED <<repo, run, types, branches, failedLogs, dropped, bi, ci, k, task, fs, prev,
                   attempted, failures, args, config, discard, testvars>>

\* main after flag.Parse: the log output is discarded when opt.Quiet.
QuietApply ==
    /\ pc = "flags"
    /\ argi > Len(args)
    /\ discard' = opt.Quiet
    /\ pc' = "merge"
    /\ UNCHANGED <<repo, opt, run, exitCode, types, branches, failedLogs, dropped, fatal, bi,
                   ci, k, task, fs, prev, attempted, failures, args, argi, config, testvars>>

\* main, the config file: store is a copy of opt with the branches
\* appended to themselves, the file is read into it, and every flag the
\* command line did not set is set from store.
ConfigMerge ==
    /\ pc = "merge"
    /\ LET store == Unmarshal(config, [opt EXCEPT !.Branches = @ \o opt.Branches])
       IN  opt' = VisitAll(opt, store, flagset(args), FlagNames)
    /\ pc' = "config"
    /\ UNCHANGED <<repo, run, exitCode, types, branches, failedLogs, dropped, fatal, bi,
                   ci, k, task, fs, prev, attempted, failures, flagvars, testvars>>

\* main: the output directory is made and the options are saved.
OptSave ==
    /\ pc = "config"
    /\ \E o \in {"ok", "mkdir", "save"} :
        /\ Fail(Failed(o))
        /\ CASE o = "mkdir" ->
                    /\ Fatalf("unable to create output directory")
                    /\ UNCHANGED config
             [] o = "save" ->
                    /\ Fatalf("unable to save options")
                    /\ UNCHANGED config
             [] OTHER ->
                    /\ config' = Marshal(opt)
                    /\ pc' = "init"
                    /\ UNCHANGED <<exitCode, fatal, bi, ci, k>>
    /\ UNCHANGED <<repo, opt, run, types, branches, failedLogs, dropped, task, fs, prev,
                   attempted, args, argi, discard, testvars>>

\* The program is run again on the same output directory, with another
\* command line.
FlagsRerun ==
    /\ pc = "init"
    /\ run < MaxRuns
    /\ run' = run + 1
    /\ opt' = Defaults
    /\ args' \in ArgLists
    /\ argi' = 1
    /\ discard' = FALSE
    /\ pc' = "flags"
    /\ UNCHANGED <<repo, exitCode, types, branches, failedLogs, dropped, fatal, bi, ci, k,
                   task, fs, prev, attempted, failures, config, testvars>>

NextFlags ==
    \/ FlagParse
    \/ QuietApply
    \/ ConfigMerge
    \/ OptSave
    \/ FlagsRerun

SpecFlags == InitFlags /\ [][NextFlags]_vars

-----------------------------------------------------------------------------
(* helper_test.go: contains and dedupe on lists of words. *)

Words == {"one", "two", "three"}

\* The lists of at most MaxLen words, and the list of TestDedupe.
WordLists ==
    UNION { [1..n -> Words] : n \in 0..MaxLen }
    \cup { <<"one", "one", "two", "three", "three", "three">> }

InitTest ==
    /\ repo \in [listing : {BranchListing}, tree : {[c1 |-> <<F1>>, c2 |-> <<F1>>]},
                 stat : {<<>>}, baddate : {{}}, badstat : {{}}]
    /\ opt = Defaults
    /\ run = 1
    /\ pc = "test"
    /\ exitCode = -1
    /\ types = <<>>
    /\ branches = <<>>
    /\ failedLogs = {}
    /\ dropped = {}
    /\ fatal = ""
    /\ bi = 1 /\ ci = 1 /\ k = 1
    /\ task = <<>>
    /\ fs = NoFiles
    /\ prev = NoFiles
    /\ attempted = {}
    /\ failures = 0
    /\ NoFlags
    /\ words \in WordLists
    /\ got = NoResult

\* TestContains: contains(words, w), here for every word.
TestContains ==
    /\ pc = "test"
    /\ got.contains = <<>>
    /\ got' = [got EXCEPT !.contains = [w \in Words |-> contains(words, w)]]
    /\ UNCHANGED <<repo, opt, run, pc, exitCode, types, branches, failedLogs, dropped, fatal,
                   bi, ci, k, task, fs, prev, attempted, failures, flagvars, words>>

\* TestDedupe: dedupe(dupes).
TestDedupe ==
    /\ pc = "test"
    /\ got.dedupe = <<>>
    /\ got' = [got EXCEPT !.dedupe = <<dedupe(words)>>]
    /\ UNCHANGED <<repo, opt, run, pc, exitCode, types, branches, failedLogs, dropped, fatal,
                   bi, ci, k, task, fs, prev, attempted, failures, flagvars, words>>

NextTest == TestContains \/ TestDedupe

SpecTest == InitTest /\ [][NextTest]_vars

-----------------------------------------------------------------------------
(* Properties. *)

\* branchFilter has returned.
Filtered ==
    /\ pc \notin {"init", "save", "filter"}
    /\ fatal \notin { "unable to initialize output directory", "unable to set up repo",
                      "unable to filter branches", "index out of range" }

\* The parsed tree objects of the branches writePages is given.
TreeObjects ==
    { [commit |-> branches[i].Commits[j].Hash, obj |-> branches[i].Commits[j].Tree[n]] :
        <<i, j, n>> \in { x \in (DOMAIN branches) \X (1..3) \X (1..2) :
                            /\ x[2] <= Len(branches[x[1]].Commits)
                            /\ x[3] <= Len(branches[x[1]].Commits[x[2]].Tree) } }

\* Every unit of work of writePages and writeMainIndex for the branches bs.
AllItems(bs) ==
    {<<"index", 0, 0, 0>>}
    \cup { <<"branch", i, 0, 0>> : i \in DOMAIN bs }
    \cup UNION { UNION { {<<"commit", i, j, 0>>, <<"page", i, j, 0>>}
                         \cup { <<"diff", i, j, n>> : n \in DOMAIN bs[i].Commits[j].Parents }
                         \cup { <<"object", i, j, n>> : n \in DOMAIN bs[i].Commits[j].Tree } :
                         j \in DOMAIN bs[i].Commits } : i \in DOMAIN bs }

\* C1: an artifact of the object store (blob or rendered page) that exists
\* when writeObjectBlob and writeObject are called for its hash is left as it
\* is: not created again, truncated or overwritten.
C1_ArtifactWrittenOnce ==
    [][ pc = "object" =>
          \A h \in Hashes : \A p \in {ObjectPath(h), ObjectPagePath(h)} :
              Exists(fs, p) => Exists(fs', p) /\ Content(fs', p) = Content(fs, p) ]_vars

\* C2: after a run without failure, every content hash of the trees has its
\* one rendered artifact, as many artifacts as distinct hashes, and the
\* commit-local entry of every tree object is a hard link to the artifact of
\* its hash.
C2_OneArtifactPerHash ==
    (pc = "exit" /\ exitCode = 0 /\ failures = 0 /\ run = 1) =>
        /\ \A t \in TreeObjects :
            /\ Exists(fs, ObjectPagePath(t.obj.Hash))
            /\ Exists(fs, LinkPath(t.commit, t.obj.Path))
            /\ fs.ino[LinkPath(t.commit, t.obj.Path)] = fs.ino[ObjectPagePath(t.obj.Hash)]
        /\ Cardinality({ h \in Hashes : Exists(fs, ObjectPagePath(h)) })
             = Cardinality({ Str(t.obj.Hash) : t \in TreeObjects })

\* C3: a second run without force on the output of the first, nothing
\* failing in either, ends without error and leaves every file of the first
\* run with the content it had.
C3_SecondRunIdempotent ==
    (pc = "exit" /\ run = 2 /\ ~opt.Force /\ failures = 0
        /\ \A i \in DOMAIN task : task[i] = "done") =>
        /\ exitCode = 0
        /\ \A p \in DOMAIN prev.ino : Exists(fs, p) /\ Content(fs, p) = Content(prev, p)

\* C4: the rendered page of a content hash is the same whichever commit,
\* branch or path it was rendered for: a page rendered again for the hash
\* has the content it had.
C4_PageDeterminedByHash ==
    [][ \A h \in Hashes :
          LET p == ObjectPagePath(h)
          IN  (/\ Exists(fs, p) /\ Content(fs, p).kind = "object"
               /\ Exists(fs', p) /\ Content(fs', p).kind = "object")
              => Content(fs', p) = Content(fs, p) ]_vars

\* C5: when main returns, every writeBranchPage task started by writePages
\* has finished.
C5_TasksDoneWhenMainReturns ==
    (pc = "exit" /\ exitCode = 0) => \A i \in DOMAIN task : task[i] = "done"

\* The failures the design calls fatal: the output directories, the clone,
\* the branch listing, the creation of the index file.
SetupFatal ==
    { "unable to initialize output directory", "unable to set up repo",
      "unable to filter branches", "unable to create home page" }

\* C6: the process exits with a non-zero status only for a setup failure;
\* a failure while one page is produced (a branch directory that cannot be
\* created, a template that fails, the index page included) does not end
\* the run.
C6_OnlySetupFailuresFatal ==
    exitCode = 1 => fatal \in SetupFatal

\* C7: a run that got past the setup has, when the process ends, attempted
\* every branch page, every commit, every parent diff, every tree object and
\* the repository index.
C7_EveryItemAttempted ==
    (pc = "exit" /\ fatal \notin (SetupFatal \ {"unable to create home page"})) =>
        AllItems(branches) \subseteq attempted

\* C8: no file of the object store or of a commit directory is ever left
\* empty, truncated or partially written.
C8_NoCorruptFile ==
    \A p \in DOMAIN fs.ino :
        p[1] \in {"object", "commit"} => Content(fs, p).kind \notin {"empty", "partial"}

\* The names of the branches in bs that are no zero value.
RECURSIVE NamesOf(_)
NamesOf(bs) ==
    IF bs = <<>> THEN <<>>
    ELSE (IF bs[1].Name = "" THEN <<>> ELSE <<bs[1].Name>>) \o NamesOf(Tail(bs))

\* The elements of w that are in S, in the order of w.
RECURSIVE Keep(_, _)
Keep(w, S) ==
    IF w = <<>> THEN <<>>
    ELSE (IF w[1] \in S THEN <<w[1]>> ELSE <<>>) \o Keep(Tail(w), S)

\* C9: with a non-empty whitelist the branches returned are the whitelisted
\* names that are discovered branches (and whose log could be read), in the
\* order of the whitelist; [main, develop] over {main, develop, exp} gives
\* exactly [main, develop].
C9_WhitelistOrder ==
    (Filtered /\ Len(opt.Branches) > 0) =>
        /\ NamesOf(branches) = Keep(opt.Branches, BranchNames(repo) \ failedLogs)
        /\ (/\ opt.Branches = <<"main", "develop">>
            /\ BranchNames(repo) = {"main", "develop", "exp"}
            /\ failedLogs = {})
           => /\ Len(branches) = 2
              /\ branches[1].Name = "main"
              /\ branches[2].Name = "develop"

\* C9 witness: the whitelist names develop before main, the listing main
\* before develop, and the result is develop, then main.
C9_Witness ==
    /\ Filtered
    /\ opt.Branches = <<"develop", "main">>
    /\ failedLogs = {}
    /\ Len(branches) = 2
    /\ branches[1].Name = "develop"
    /\ branches[2].Name = "main"
    /\ Len(branches[2].Commits) = 2

\* C10: every element branchFilter returns is a discovered branch whose
\* commits were extracted; an unknown name or a branch whose log fails
\* contributes no element.
C10_OnlyExtractedBranches ==
    Filtered =>
        \A i \in DOMAIN branches : branches[i].Name \in BranchNames(repo) \ failedLogs

\* The names of the listing in the order of their first lines.
DiscoveryOrder(r) == dedupe([i \in 1..Len(r.listing) |-> BranchName(r.listing[i])])

\* C11: with an empty whitelist, and every log readable, branchFilter
\* returns every discovered branch once, in the order in which the listing
\* first names them (hence in the same order at every run).
C11_DiscoveryOrder ==
    (Filtered /\ opt.Branches = <<>> /\ failedLogs = {}) =>
        NamesOf(branches) = DiscoveryOrder(repo)

\* C12: the names branchFilter resolves from the listing are the names of
\* the repository's branches, each once, a name holding "/" included and no
\* name for the HEAD pointer line; so with an empty whitelist every branch
\* whose log is readable is returned under its own name.
C12_ResolvedNames ==
    Filtered =>
        /\ BranchNames(repo) = RefNames(repo)
        /\ "HEAD" \notin BranchNames(repo)
        /\ opt.Branches = <<>> =>
                \A n \in RefNames(repo) \ failedLogs :
                    \E i \in DOMAIN branches : branches[i].Name = n

\* The commits of branch n that commitParser could parse: date, body and
\* tree.
Parsed(n) ==
    SelectSeq(LogOf(n), LAMBDA h : h \notin repo.baddate /\ <<n, h>> \notin dropped)

\* C13: the commits commitParser returns for a branch are the commits of
\* its log whose date parses and whose body and tree could be read, in log
\* order, each with the fields it has when nothing fails.
C13_FailedCommitsOmitted ==
    Filtered =>
        \A i \in DOMAIN branches :
            branches[i].Name # "" =>
                branches[i].Commits =
                    [j \in 1..Len(Parsed(branches[i].Name)) |->
                        CommitOf(repo, Parsed(branches[i].Name)[j])]

\* C13 witness: the newest commit of main was left out (its date does not
\* parse) and the older one is returned.
C13_Witness ==
    /\ Filtered
    /\ "c2" \in repo.baddate
    /\ \E i \in DOMAIN branches :
        /\ branches[i].Name = "main"
        /\ Len(branches[i].Commits) = 1
        /\ branches[i].Commits[1].Hash = "c1"
        /\ Len(branches[i].Commits[1].Tree) = 1

\* C17: treeParser returns one object per line of the listing, the hash and
\* the whole path of the line, and an empty listing gives no object and no
\* failure.
C17_OneObjectPerLine ==
    /\ fatal # "index out of range"
    /\ Filtered =>
        \A i \in DOMAIN branches : \A j \in DOMAIN branches[i].Commits :
            LET c == branches[i].Commits[j]
                listing == repo.tree[c.Hash]
            IN  /\ Len(c.Tree) = Len(listing)
                /\ \A n \in DOMAIN c.Tree :
                    /\ c.Tree[n].Hash = listing[n].name
                    /\ c.Tree[n].Path = Join(listing[n].path, " ")

\* The lines of git diff --stat that diffStatParser has processed in this
\* run: for every parent of every commit of the log of every branch whose
\* log could be read.
StatLines ==
    UNION { UNION { UNION { { StatOf(repo, LogOf(b)[i], ParentsOf(LogOf(b)[i])[n])[l] :
                                l \in DOMAIN StatOf(repo, LogOf(b)[i], ParentsOf(LogOf(b)[i])[n]) } :
                            n \in DOMAIN ParentsOf(LogOf(b)[i]) } :
                    i \in DOMAIN LogOf(b) } :
            b \in Selected(repo, opt.Branches) \ failedLogs }

\* The extensions some processed line marks as binary.
Marked == { l.ext : l \in { x \in StatLines : x.bin } }

\* C14: once a processed diff-stat line for an extension holds the binary
\* marker, every object page rendered for a path of that extension is a
\* binary one (no line numbers, no body).
C14_BinaryNeverLost ==
    Filtered =>
        \A p \in DOMAIN fs.ino :
            (Content(fs, p).kind = "object" /\ Ext(Content(fs, p).title[3]) \in Marked)
                => Content(fs, p).body = <<Content(fs, p).body[1], "Bin", "", "">>

\* C15: the page writeObject renders has line numbers and a body exactly
\* when types does not hold true for the extension of the object's path at
\* that moment (an extension that is no key of types counts as not binary),
\* and has neither otherwise.
C15_TextIffNotBinary ==
    [][ pc = "object" =>
          LET obj == branches[bi].Commits[ci].Tree[k]
              p == ObjectPagePath(obj.Hash)
              e == Ext(obj.Path)
              bin == e \in DOMAIN types /\ types[e]
          IN  (/\ Exists(fs', p)
               /\ Content(fs', p).kind = "object"
               /\ ~Exists(fs, p) \/ Content(fs', p) # Content(fs, p))
              => /\ bin => Content(fs', p).body = <<Str(obj.Hash), "Bin", "", "">>
                 /\ ~bin => Content(fs', p).body = <<Str(obj.Hash), "", "Lines", "Body">> ]_vars

\* C15 witness: a page without text for g.png, .png being marked binary,
\* and a page with line numbers and body for f.txt, .txt being no key of
\* types.
C15_Witness ==
    /\ ".png" \in DOMAIN types /\ types[".png"] /\ ".txt" \notin DOMAIN types
    /\ \E p, q \in DOMAIN fs.ino :
        /\ Content(fs, p).kind = "object" /\ Content(fs, p).title[3] = "g.png"
        /\ Content(fs, p).body = <<"bb2", "Bin", "", "">>
        /\ Content(fs, q).kind = "object" /\ Content(fs, q).title[3] = "f.txt"
        /\ Content(fs, q).body = <<"aa1", "", "Lines", "Body">>

\* The commits writePages is given, as <<branch index, commit index>>.
CommitItems ==
    { x \in (DOMAIN branches) \X (1..3) : x[2] <= Len(branches[x[1]].Commits) }

DiffsOf(x) == { <<"diff", x[1], x[2], n>> : n \in DOMAIN branches[x[1]].Commits[x[2]].Parents }

ObjectsOf(x) == { <<"object", x[1], x[2], n>> : n \in DOMAIN branches[x[1]].Commits[x[2]].Tree }

\* The steps of a commit are taken in parent order and in tree order.
InListOrder ==
    \A x \in CommitItems : \A i \in DiffsOf(x) \cup ObjectsOf(x) :
        i \in attempted =>
            \A m \in 1..(i[4] - 1) : <<i[1], i[2], i[3], m>> \in attempted

\* C16 as stated: in the processing of a commit the commit page comes
\* first, then the diff pages in parent order, then the tree objects.
C16_PageThenDiffsThenObjects ==
    /\ InListOrder
    /\ \A x \in CommitItems :
        /\ (DiffsOf(x) \cap attempted # {}) => <<"page", x[1], x[2], 0>> \in attempted
        /\ (ObjectsOf(x) \cap attempted # {}) =>
                /\ <<"page", x[1], x[2], 0>> \in attempted
                /\ DiffsOf(x) \subseteq attempted

\* C16 amended: in the processing of a commit the diff pages come first, in
\* parent order, then the tree objects in tree order, and the commit page
\* last.
C16_DiffsThenObjectsThenPage ==
    /\ InListOrder
    /\ \A x \in CommitItems :
        /\ (ObjectsOf(x) \cap attempted # {}) => DiffsOf(x) \subseteq attempted
        /\ <<"page", x[1], x[2], 0>> \in attempted =>
                DiffsOf(x) \cup ObjectsOf(x) \subseteq attempted

\* C16 witness: for the merge commit c3 both diff pages and the first tree
\* object are done, the second object is next and the commit page is not
\* written yet.
C16_Witness ==
    /\ pc = "object" /\ k = 2
    /\ branches[bi].Commits[ci].Hash = "c3"
    /\ {<<"diff", bi, ci, 1>>, <<"diff", bi, ci, 2>>, <<"object", bi, ci, 1>>} \subseteq attempted
    /\ <<"page", bi, ci, 0>> \notin attempted
    /\ Exists(fs, DiffPagePath("c3", "c2")) /\ Exists(fs, DiffPagePath("c3", "c1"))
    /\ ~Exists(fs, CommitPagePath("c3"))

\* The entries of f under the directory top, the directory itself left out.
Under(f, top) == { p \in DOMAIN f.ino : p[1] = top /\ p # DirPath(top) }

\* The entries S of f are in g with the content they have in f.
Kept(f, g, S) == \A p \in S : Exists(g, p) /\ Content(g, p) = Content(f, p)

\* C18: when project.init returns without error, with force the commit and
\* object directories exist and are empty and the branch directory holds
\* what it held; without force all three hold what they held.
C18_InitClearsCommitAndObject ==
    [][ (pc = "init" /\ pc' = "save") =>
          /\ \A top \in {"branch", "commit", "object"} : Exists(fs', DirPath(top))
          /\ Kept(fs, fs', Under(fs, "branch")) /\ Under(fs', "branch") = Under(fs, "branch")
          /\ IF opt.Force
             THEN Under(fs', "commit") = {} /\ Under(fs', "object") = {}
             ELSE \A top \in {"commit", "object"} :
                    Kept(fs, fs', Under(fs, top)) /\ Under(fs', top) = Under(fs, top) ]_vars

\* C18 witness: project.init of a second run, with force, has returned: the
\* commit pages of the first run are gone, the directories are there and
\* the branch pages are kept.
C18_Witness ==
    /\ run = 2 /\ opt.Force /\ pc = "save"
    /\ Exists(prev, CommitPagePath("c1")) /\ Exists(prev, ObjectPagePath(<<"a", "a", "1">>))
    /\ Under(fs, "commit") = {} /\ Under(fs, "object") = {}
    /\ Exists(fs, DirPath("commit")) /\ Exists(fs, DirPath("object"))
    /\ Exists(fs, BranchPagePath("exp"))
    /\ Content(fs, BranchPagePath("exp")).kind = "branch"

\* C19: the files the user keeps in the output directory are there with
\* their content at every moment of every run, and every other entry is
\* index.html or lies under branch/, commit/ or object/.
C19_UserFilesIntact ==
    /\ Kept(UserFiles, fs, DOMAIN UserFiles.ino)
    /\ \A p \in DOMAIN fs.ino :
        p \in DOMAIN UserFiles.ino \/ p = MainIndexPath \/ p[1] \in {"branch", "commit", "object"}

\* C19 witness: a second run, with force, has ended well and the user's
\* files are as they were before the first.
C19_Witness ==
    /\ run = 2 /\ opt.Force /\ pc = "exit" /\ exitCode = 0
    /\ Exists(prev, MainIndexPath) /\ Exists(fs, MainIndexPath)
    /\ Exists(fs, CommitPagePath("c1"))
    /\ Kept(UserFiles, fs, DOMAIN UserFiles.ino)

\* The messages of the three setup failures of main.
AbortMessages ==
    { "unable to initialize output directory", "unable to set up repo",
      "unable to filter branches" }

\* C20: when project.init, the clone or the branch listing fails, the
\* process ends with a non-zero status and this run has written no page:
\* no item was attempted, no branch page task started, and every file is
\* one the run found, with the content it had.
C20_SetupFailureAborts ==
    fatal \in AbortMessages =>
        /\ pc = "exit" /\ exitCode # 0
        /\ attempted = {} /\ task = <<>>
        /\ \A p \in DOMAIN fs.ino :
            Content(fs, p).kind # "dir" => Exists(prev, p) /\ Content(prev, p) = Content(fs, p)

\* C20 witness: the clone fails in a second run: the pages of the first
\* run are what the output directory holds.
C20_Witness ==
    /\ run = 2 /\ fatal = "unable to set up repo" /\ exitCode = 1
    /\ attempted = {}
    /\ Exists(fs, BranchPagePath("exp"))

\* The blobs writeObjectBlob has stored: the entries of the object store
\* whose content is a blob, and the hashes they hold.
Blobs == { p \in DOMAIN fs.ino : p[1] = "object" /\ Content(fs, p).kind = "blob" }

\* The hashes of the tree objects whose blob is stored.
StoredHashes == { h \in StoreHashes : \E p \in Blobs : Content(fs, p).body = <<Str(h)>> }

\* C21 as stated: the blob of hash h is stored under the first two
\* characters of h as directory and the whole of h as file name, and
\* distinct hashes are stored at distinct paths.
C21_FullHashFileName ==
    /\ \A h \in StoredHashes :
        /\ Exists(fs, <<"object", "", Str(SubSeq(h, 1, 2)) \o "/" \o Str(h)>>)
        /\ Content(fs, <<"object", "", Str(SubSeq(h, 1, 2)) \o "/" \o Str(h)>>).body = <<Str(h)>>
    /\ Cardinality(Blobs) = Cardinality(StoredHashes)

\* C21 amended: the blob of hash h is stored under the first two characters
\* of h as directory and the remaining characters of h as file name, and
\* distinct hashes are stored at distinct paths; a run without failure
\* stores every hash of the trees.
C21_RestOfHashFileName ==
    /\ \A p \in Blobs :
        \E h \in StoreHashes :
            /\ p = <<"object", "", Str(SubSeq(h, 1, 2)) \o "/" \o Str(SubSeq(h, 3, Len(h)))>>
            /\ Content(fs, p).body = <<Str(h)>>
    /\ (pc = "exit" /\ exitCode = 0 /\ failures = 0) =>
            \A t \in TreeObjects : t.obj.Hash \in StoredHashes

\* C21 witness: the blobs of aa11 and aa21, hashes with the same first two
\* characters, are stored as aa/11 and aa/21.
C21_Witness ==
    /\ Exists(fs, <<"object", "", "aa/11">>) /\ Exists(fs, <<"object", "", "aa/21">>)
    /\ Content(fs, <<"object", "", "aa/11">>).body = <<"aa11">>
    /\ Content(fs, <<"object", "", "aa/21">>).body = <<"aa21">>

\* The line numbers of content out: 1 to the number of its lines, a last
\* line without newline counted.
RECURSIVE UpTo(_)
UpTo(n) == IF n = 0 THEN <<>> ELSE Append(UpTo(n - 1), n)

LineCount(out) ==
    Count(out) + (IF out # <<>> /\ out[Len(out)] # "\n" THEN 1 ELSE 0)

\* C26: the line numbers of every rendered page of a text object are
\* 1, 2, ..., k for its k lines, and none for empty content.
C26_LineNumbers ==
    \A p \in DOMAIN fs.ino :
        (Content(fs, p).kind = "object" /\ Content(fs, p).body[2] = "") =>
            \E h \in StoreHashes :
                /\ Content(fs, p).body[1] = Str(h)
                /\ Content(fs, p).lines = UpTo(LineCount(ShowOf(h)))

\* C27: the outputs of a run have pairwise distinct paths, so the link of
\* a tree path never holds a commit page or a diff page, and no file of
\* the object store does.
C27_DistinctOutputPaths ==
    Filtered =>
        /\ \A t \in TreeObjects :
                Exists(fs, LinkPath(t.commit, t.obj.Path)) =>
                    Content(fs, LinkPath(t.commit, t.obj.Path)).kind \notin {"commit", "diff"}
        /\ \A p \in DOMAIN fs.ino :
                p[1] = "object" => Content(fs, p).kind \notin {"commit", "diff"}

\* The elements of a list.
Elems(sq) == { sq[i] : i \in DOMAIN sq }

\* No element of the list occurs twice.
NoDup(sq) == \A i, j \in DOMAIN sq : sq[i] = sq[j] => i = j

\* The index at which x first occurs in sq.
FirstIndex(sq, x) == CHOOSE i \in DOMAIN sq : sq[i] = x /\ \A j \in 1..(i - 1) : sq[j] # x

\* list holds every element of sq exactly once, in order of first
\* appearance in sq.
FirstAppearance(list, sq) ==
    /\ NoDup(list)
    /\ Elems(list) = Elems(sq)
    /\ \A i, j \in DOMAIN list : i < j => FirstIndex(sq, list[i]) < FirstIndex(sq, list[j])

RECURSIVE ValuesOf(_, _)
\* The values the command line a gives for the flag name, in order.
ValuesOf(a, name) ==
    IF a = <<>> THEN <<>>
    ELSE (IF a[1][1] = name THEN <<a[1][2]>> ELSE <<>>) \o ValuesOf(Tail(a), name)

\* C22: while the flags are parsed the whitelist holds each name supplied
\* with -b so far exactly once, in order of first appearance; a -b with a
\* name the whitelist holds leaves it unchanged, and no -b ends parsing with
\* an error.
C22_SetDeduplicates ==
    [][pc = "flags" =>
        /\ pc' # "exit" =>
                FirstAppearance(opt'.Branches, ValuesOf(SubSeq(args, 1, argi' - 1), "b"))
        /\ (argi <= Len(args) /\ args[argi][1] = "b") =>
                /\ pc' = "flags" /\ exitCode' = -1 /\ argi' = argi + 1
                /\ args[argi][2] \in Elems(opt.Branches) => opt'.Branches = opt.Branches]_vars

\* C22 witness: -b main -b develop -b main is parsed as main, develop.
C22_Witness ==
    /\ pc = "merge"
    /\ args = <<<<"b", "main">>, <<"b", "develop">>, <<"b", "main">>>>
    /\ opt.Branches = <<"main", "develop">>

\* C23: dedupe returns every distinct element of its input exactly once, in
\* order of first occurrence; the length of the result is the number of
\* distinct values, 3 for the list of TestDedupe.
C23_DedupeFirstOccurrence ==
    got.dedupe # <<>> =>
        /\ FirstAppearance(got.dedupe[1], words)
        /\ Len(got.dedupe[1]) = Cardinality(Elems(words))
        /\ words = <<"one", "one", "two", "three", "three", "three">> => Len(got.dedupe[1]) = 3

\* C23 witness: TestDedupe's list gives one, two, three.
C23_Witness ==
    /\ words = <<"one", "one", "two", "three", "three", "three">>
    /\ got.dedupe = <<<<"one", "two", "three">>>>

\* C24: contains(s, n) is true exactly when n is an element of s, at any
\* position, and false for the empty list.
C24_ContainsIsMembership ==
    got.contains # <<>> =>
        \A w \in Words : got.contains[w] <=> (\E i \in DOMAIN words : words[i] = w)

\* C24 witness: a word found at the last position of three, another not
\* found.
C24_Witness ==
    /\ words = <<"one", "one", "two">>
    /\ got.contains # <<>>
    /\ got.contains["two"] /\ ~got.contains["three"]

\* The command line sets the flag name.
Given(name) == \E i \in DOMAIN args : args[i][1] = name

\* The last value the command line gives the flag name.
LastValue(name) ==
    args[CHOOSE i \in DOMAIN args :
            args[i][1] = name /\ \A j \in DOMAIN args : j > i => args[j][1] # name][2]

\* The config file holds a value for the key.
Stored(key) == config # NoConfig /\ key \in DOMAIN config /\ config[key][1] # "null"

\* C25: after the merge every option has the value of the command line
\* when its flag was given, else the value of the config file when the file
\* holds one, else the default; the log output is discarded exactly when
\* the effective quiet option is set.
C25_EffectiveOptions ==
    pc = "config" =>
        /\ opt.Name = IF Given("n") THEN LastValue("n")
                      ELSE IF Stored("name") THEN config["name"][2] ELSE "Jimbo"
        /\ IF Given("b") THEN FirstAppearance(opt.Branches, ValuesOf(args, "b"))
           ELSE opt.Branches = IF Stored("branches") THEN config["branches"][2] ELSE <<>>
        /\ opt.Force = IF Given("f") THEN LastValue("f") = "true"
                       ELSE IF Stored("force") THEN config["force"][2] ELSE FALSE
        /\ opt.Quiet = IF Given("q") THEN LastValue("q") = "true"
                       ELSE IF Stored("quiet") THEN config["quiet"][2] ELSE FALSE
        /\ discard = opt.Quiet

\* The commits of the branches branchFilter returned.
ParsedCommits ==
    { branches[i].Commits[j] :
        <<i, j>> \in { x \in (DOMAIN branches) \X (1..3) : x[2] <= Len(branches[x[1]].Commits) } }

\* C29: a commit with a parent whose diff-stat failed is returned all the
\* same, with all its parents; its overviews are one per parent whose
\* diff-stat succeeded, in parent order, each with the commit's hash and
\* the parent's, so never more than the parents.
C29_OverviewPerGoodParent ==
    Filtered =>
        /\ \A i \in DOMAIN branches :
                branches[i].Name # "" =>
                    [j \in DOMAIN branches[i].Commits |-> branches[i].Commits[j].Hash]
                        = Parsed(branches[i].Name)
        /\ \A c \in ParsedCommits :
                LET good == SelectSeq(ParentsOf(c.Hash), LAMBDA p : <<c.Hash, p>> \notin repo.badstat)
                IN  /\ c.Parents = ParentsOf(c.Hash)
                    /\ Len(c.History) = Len(good)
                    /\ Len(c.History) <= Len(c.Parents)
                    /\ \A n \in DOMAIN c.History :
                            c.History[n].Hash = c.Hash /\ c.History[n].Parent = good[n]

\* C29 witness: the diff-stat of merge commit c3 against its first parent
\* failed; c3 is returned with both parents and the overview of the second.
C29_Witness ==
    /\ Filtered
    /\ repo.badstat = {<<"c3", "c2">>}
    /\ \E c \in ParsedCommits :
        /\ c.Hash = "c3"
        /\ c.Parents = <<"c2", "c1">>
        /\ Len(c.History) = 1
        /\ c.History[1].Parent = "c1"

RECURSIVE StatKept(_, _, _)
\* types after the diff-stats of the commits cs of a log from which the
\* lines of the dropped commits are absent.
StatKept(r, t, bs) ==
    IF bs = <<>> THEN t
    ELSE StatKept(r, StatCommits(r, t, Parsed(bs[1])), Tail(bs))

\* C30: a commit dropped from its branch's list leaves types as it would be
\* had the log not held the commit.
C30_DroppedCommitNoEffect ==
    Filtered =>
        \E order \in Orders(Selected(repo, opt.Branches) \ failedLogs) :
            types = StatKept(repo, <<>>, order)

\* The object pages rendered in this run.
RenderedNow ==
    { p \in DOMAIN fs.ino :
        /\ Content(fs, p).kind = "object"
        /\ ~(Exists(prev, p) /\ Content(prev, p) = Content(fs, p)) }

\* C28: types is written in branchFilter only, when no writeObject has run
\* and no writeBranchPage task has been started, and stays as it is until
\* the run ends; every object page of the run is rendered with the
\* classification types holds at the end.
C28_WritesBeforeReads ==
    [][/\ (types' # types /\ run' = run) =>
            (pc = "filter" /\ task = <<>> /\ attempted = {})
       /\ (Filtered' /\ run' = run) =>
            \A p \in RenderedNow' :
                (Content(fs', p).body[2] = "Bin")
                    <=> (Ext(Content(fs', p).title[3]) \in DOMAIN types'
                            /\ types'[Ext(Content(fs', p).title[3])])]_vars

\* C28 witness: the run ended with types holding .png as binary, a task
\* started and an object page rendered as binary.
C28_Witness ==
    /\ pc = "exit" /\ exitCode = 0
    /\ types = (".png" :> TRUE)
    /\ task # <<>>
    /\ \E p \in RenderedNow : Content(fs, p).body[2] = "Bin"

=============================================================================
